---------------------------- MODULE Spec2Model ----------------------------
(***************************************************************************)
(* Model of parkinglot.py: a four-router / eight-host Mininet test bed.    *)
(* NetworkTopo.build declares the nodes and links, main starts the         *)
(* network, installs static routes, applies tc shaping directives,         *)
(* launches the streaming processes and stops the network.                 *)
(*                                                                         *)
(* An address 172.16.n.h/24 is the pair <<n, h>>; the prefix 172.16.n/24   *)
(* is the number n.  A tc handle "M:m" is the pair <<M, m>> ("M:" is       *)
(* <<M, 0>>); the root of an interface is NoHandle.                        *)
(***************************************************************************)
EXTENDS Integers, Sequences, FiniteSets, TLC

VARIABLES
  pc,          \* position of main: "build", "start", "setup", "launch", "cli", "stop", "exited", "crashed"
  cli,         \* the cli argument of main
  bi,          \* next call of NetworkTopo.build
  nodes,       \* Topo nodes: set of [name, cls, ip, gw]
  ports,       \* Topo.ports: ports allocated per node name
  links,       \* Topo links, in declaration order
  intfs,       \* realized interfaces: set of [node, port, name, ip, link]
  fwd,         \* net.ipv4.ip_forward per router
  terminated,  \* number of LinuxRouter.terminate calls per router
  si,          \* next directive of main's setup sequence
  injected,    \* indices of issued directives the environment made fail
  failed,      \* indices of issued directives whose exit code was non-zero
  rt,          \* installed static routes per router: set of [dst, via]
  tc,          \* installed queueing configuration per interface name
  launched     \* processes started by main: set of [node, cmd, target]

vars == <<pc, cli, bi, nodes, ports, links, intfs, fwd, terminated,
          si, injected, failed, rt, tc, launched>>

Hosts   == {"h1", "h2", "h3", "h4", "h5", "h6", "h7", "h8"}
Routers == {"r1", "r2", "r3", "r4"}
Names   == Hosts \cup Routers

NoIP     == <<0, 0>>
NoHandle == <<0, 0>>

\* Number of driver failures the environment may inject in one run
\* (failures that follow from the configuration itself are not counted).
MaxFailures == 1

(***************************************************************************)
(* NetworkTopo.build                                                       *)
(***************************************************************************)
\* a host whose default route names an address its router does not have
HostCall_WrongGateway(n, net) ==
  [op |-> "addHost", name |-> n, cls |-> "Host",
   ip |-> <<net, 1>>, gw |-> <<net, 3>>]

HostCall(n, net) ==
  [op |-> "addHost", name |-> n, cls |-> "Host",
   ip |-> <<net, 1>>, gw |-> <<net, 2>>]

RouterCall(n, net) ==
  [op |-> "addNode", name |-> n, cls |-> "LinuxRouter",
   ip |-> <<net, 2>>, gw |-> NoIP]

AccessLink(h, r, name2, net) ==
  [op |-> "addLink", node1 |-> h, node2 |-> r,
   intfName1 |-> "", ip1 |-> NoIP,
   intfName2 |-> name2, ip2 |-> <<net, 2>>]

BackboneLink(a, b, name1, name2, net) ==
  [op |-> "addLink", node1 |-> a, node2 |-> b,
   intfName1 |-> name1, ip1 |-> <<net, 2>>,
   intfName2 |-> name2, ip2 |-> <<net, 3>>]

NodeCalls ==
  << HostCall("h1", 101), HostCall("h2", 102),
     HostCall("h3", 103), HostCall("h4", 104),
     HostCall("h5", 105), HostCall("h6", 106),
     HostCall("h7", 107), HostCall("h8", 108),
     RouterCall("r1", 101), RouterCall("r2", 104),
     RouterCall("r3", 106), RouterCall("r4", 108) >>

\* the backbone links declared before the access links
LinkCalls_Moved ==
  << BackboneLink("r1", "r2", "r1-eth10", "r2-eth11", 10),
     BackboneLink("r2", "r3", "r2-eth10", "r3-eth11", 11),
     BackboneLink("r3", "r4", "r3-eth10", "r4-eth11", 12),
     AccessLink("h1", "r1", "r1-eth2", 101),
     AccessLink("h4", "r2", "r2-eth2", 104),
     AccessLink("h6", "r3", "r3-eth2", 106),
     AccessLink("h8", "r4", "r4-eth2", 108),
     AccessLink("h3", "r1", "r1-eth3", 103),
     AccessLink("h5", "r2", "r2-eth3", 105),
     AccessLink("h7", "r3", "r3-eth3", 107),
     AccessLink("h2", "r4", "r4-eth3", 102) >>

LinkCalls ==
  << AccessLink("h1", "r1", "r1-eth2", 101),
     AccessLink("h4", "r2", "r2-eth2", 104),
     AccessLink("h6", "r3", "r3-eth2", 106),
     AccessLink("h8", "r4", "r4-eth2", 108),
     BackboneLink("r1", "r2", "r1-eth10", "r2-eth11", 10),
     BackboneLink("r2", "r3", "r2-eth10", "r3-eth11", 11),
     BackboneLink("r3", "r4", "r3-eth10", "r4-eth11", 12),
     AccessLink("h3", "r1", "r1-eth3", 103),
     AccessLink("h5", "r2", "r2-eth3", 105),
     AccessLink("h7", "r3", "r3-eth3", 107),
     AccessLink("h2", "r4", "r4-eth3", 102) >>

BuildCalls == NodeCalls \o LinkCalls

\* Topo.addPort: a non-switch node's next port is the number it already has.
NextPort(p, n) == p[n]

\* Mininet names an interface <node>-eth<port> unless intfName is given.
IntfName(given, n, port) ==
  IF given # "" THEN given ELSE n \o "-eth" \o ToString(port)

\* Node.defaultIntf: the interface on the node's lowest port.
DefaultPort(ls, n) ==
  LET ps == {ls[i].port1 : i \in {j \in 1..Len(ls) : ls[j].node1 = n}}
            \cup {ls[i].port2 : i \in {j \in 1..Len(ls) : ls[j].node2 = n}}
  IN  CHOOSE p \in ps : \A q \in ps : p <= q

NodeIP(ns, n) == (CHOOSE x \in ns : x.name = n).ip

\* The address an interface ends up with: the link's params ip, then
\* overwritten on the node's default interface by the node-level ip.
IntfIP(ns, ls, n, port, linkip) ==
  IF port = DefaultPort(ls, n) /\ NodeIP(ns, n) # NoIP
  THEN NodeIP(ns, n) ELSE linkip

\* The interfaces the declared topology realizes.
Interfaces(ns, ls) ==
  UNION { { [node |-> ls[i].node1, port |-> ls[i].port1,
             name |-> IntfName(ls[i].intfName1, ls[i].node1, ls[i].port1),
             ip   |-> IntfIP(ns, ls, ls[i].node1, ls[i].port1, ls[i].ip1),
             link |-> i],
            [node |-> ls[i].node2, port |-> ls[i].port2,
             name |-> IntfName(ls[i].intfName2, ls[i].node2, ls[i].port2),
             ip   |-> IntfIP(ns, ls, ls[i].node2, ls[i].port2, ls[i].ip2),
             link |-> i] } : i \in 1..Len(ls) }

\* What one call of build does to the Topo object t = [nodes, ports, links].
BuildStep(t, c) ==
  IF c.op = "addLink" THEN
    LET p1 == NextPort(t.ports, c.node1)
        p2 == NextPort(t.ports, c.node2)
    IN  [nodes |-> t.nodes,
         ports |-> [t.ports EXCEPT ![c.node1] = p1 + 1, ![c.node2] = p2 + 1],
         links |-> Append(t.links,
                     [node1 |-> c.node1, node2 |-> c.node2,
                      port1 |-> p1, port2 |-> p2,
                      intfName1 |-> c.intfName1, intfName2 |-> c.intfName2,
                      ip1 |-> c.ip1, ip2 |-> c.ip2])]
  ELSE
    [nodes |-> t.nodes \cup {[name |-> c.name, cls |-> c.cls, ip |-> c.ip, gw |-> c.gw]},
     ports |-> t.ports,
     links |-> t.links]

EmptyTopo == [nodes |-> {}, ports |-> [n \in Names |-> 0], links |-> << >>]

RECURSIVE BuildAll(_, _)
BuildAll(t, calls) ==
  IF calls = << >> THEN t ELSE BuildAll(BuildStep(t, Head(calls)), Tail(calls))

\* The Topo object NetworkTopo() returns, and the interfaces it realizes.
Built      == BuildAll(EmptyTopo, BuildCalls)
BuiltIntfs == Interfaces(Built.nodes, Built.links)

Init ==
  /\ pc = "build"
  /\ cli \in {0, 1}
  /\ bi = 1
  /\ nodes = EmptyTopo.nodes
  /\ ports = EmptyTopo.ports
  /\ links = EmptyTopo.links
  /\ intfs = {}
  /\ fwd = [r \in Routers |-> 0]
  /\ terminated = [r \in Routers |-> 0]
  /\ si = 1
  /\ injected = {}
  /\ failed = {}
  /\ rt = [r \in Routers |-> {}]
  /\ tc = [k \in {} |-> << >>]
  /\ launched = {}

mainVars == <<cli, fwd, terminated, si, injected, failed, rt, tc, launched>>

Topo == [nodes |-> nodes, ports |-> ports, links |-> links]

\* self.addHost( name, ip=..., defaultRoute=... )
addHost ==
  /\ pc = "build" /\ bi <= Len(BuildCalls)
  /\ BuildCalls[bi].op = "addHost"
  /\ nodes' = BuildStep(Topo, BuildCalls[bi]).nodes
  /\ bi' = bi + 1
  /\ UNCHANGED <<pc, ports, links, intfs>> /\ UNCHANGED mainVars

\* self.addNode( name, cls=LinuxRouter, ip=... )
addNode ==
  /\ pc = "build" /\ bi <= Len(BuildCalls)
  /\ BuildCalls[bi].op = "addNode"
  /\ nodes' = BuildStep(Topo, BuildCalls[bi]).nodes
  /\ bi' = bi + 1
  /\ UNCHANGED <<pc, ports, links, intfs>> /\ UNCHANGED mainVars

\* self.addLink( node1, node2, intfName1=, params1=, intfName2=, params2= )
addLink ==
  /\ pc = "build" /\ bi <= Len(BuildCalls)
  /\ BuildCalls[bi].op = "addLink"
  /\ links' = BuildStep(Topo, BuildCalls[bi]).links
  /\ ports' = BuildStep(Topo, BuildCalls[bi]).ports
  /\ bi' = bi + 1
  /\ UNCHANGED <<pc, nodes, intfs>> /\ UNCHANGED mainVars

\* topo = NetworkTopo() has returned
BuildDone ==
  /\ pc = "build" /\ bi > Len(BuildCalls)
  /\ pc' = "start"
  /\ UNCHANGED <<bi, nodes, ports, links, intfs>> /\ UNCHANGED mainVars

(***************************************************************************)
(* main: the directives handed to net[ node ].cmd( ... )                   *)
(***************************************************************************)
isRTP == FALSE

queuing_del          == 100    \* ms
access_delay         == 20     \* ms
access_delay_var     == 2      \* ms
access_rate          == 1024   \* kbit
bottleneck_delay     == 20     \* ms
bottleneck_delay_var == 3      \* ms
bottleneck_loss      == "0%"
bottleneck_rate      == 666    \* kbit
tbf_burst            == 1540
htb_default          == 10
edge_delay           == 1      \* ms, the literal '1ms' of the h1/h2 loop and of the two changes

NoLoss == "none"

Directive(node, op, dev, kind, parent, handle) ==
  [node |-> node, op |-> op, dev |-> dev, kind |-> kind,
   parent |-> parent, handle |-> handle,
   rate |-> 0, latency |-> 0, burst |-> 0, delay |-> 0, jitter |-> 0,
   loss |-> NoLoss, dflt |-> 0, dst |-> 0, via |-> NoIP]

\* 'ip route add 172.16.<dst>/24 nexthop via 172.16.<via>'
Route(node, dst, via) ==
  [Directive(node, "route add", "", "", NoHandle, NoHandle)
     EXCEPT !.dst = dst, !.via = via]

\* 'tc qdisc add dev <dev> root handle 1: tbf rate <rate> latency <lat> burst 1540'
Tbf(node, dev, rate, lat) ==
  [Directive(node, "qdisc add", dev, "tbf", NoHandle, <<1, 0>>)
     EXCEPT !.rate = rate, !.latency = lat, !.burst = tbf_burst]

\* 'tc qdisc <add|change> dev <dev> parent <p> handle <h> netem delay <d> <j> [loss <l>]'
Netem(node, op, dev, parent, handle, d, j, l) ==
  [Directive(node, op, dev, "netem", parent, handle)
     EXCEPT !.delay = d, !.jitter = j, !.loss = l]

\* 'tc qdisc add dev <dev> parent 10:  handle 101: fq'
Fq(node, dev) == Directive(node, "qdisc add", dev, "fq", <<10, 0>>, <<101, 0>>)

\* 'tc qdisc add dev <dev> <parent> handle <h> htb default 10'
Htb(node, dev, parent, handle) ==
  [Directive(node, "qdisc add", dev, "htb", parent, handle)
     EXCEPT !.dflt = htb_default]

\* 'tc class add dev <dev> parent <p> classid <c> htb rate <rate>'
HtbClass(node, dev, parent, classid, rate) ==
  [Directive(node, "class add", dev, "htb", parent, classid)
     EXCEPT !.rate = rate]

RECURSIVE Flatten(_)
Flatten(ss) == IF ss = << >> THEN << >> ELSE Head(ss) \o Flatten(Tail(ss))

\* r3 sending 172.16.105/24 to r4 instead of r2
RouteDirectives_WrongHop ==
  << Route("r1", 104, <<10, 3>>), Route("r1", 102, <<10, 3>>),
     Route("r2", 102, <<11, 3>>), Route("r2", 106, <<11, 3>>),
     Route("r2", 103, <<10, 2>>), Route("r2", 101, <<10, 2>>),
     Route("r3", 102, <<12, 3>>), Route("r3", 108, <<12, 3>>),
     Route("r3", 101, <<11, 2>>), Route("r3", 105, <<12, 3>>),
     Route("r4", 101, <<12, 2>>), Route("r4", 107, <<12, 2>>) >>

\* lines 129-143
RouteDirectives ==
  << Route("r1", 104, <<10, 3>>), Route("r1", 102, <<10, 3>>),
     Route("r2", 102, <<11, 3>>), Route("r2", 106, <<11, 3>>),
     Route("r2", 103, <<10, 2>>), Route("r2", 101, <<10, 2>>),
     Route("r3", 102, <<12, 3>>), Route("r3", 108, <<12, 3>>),
     Route("r3", 101, <<11, 2>>), Route("r3", 105, <<11, 2>>),
     Route("r4", 101, <<12, 2>>), Route("r4", 107, <<12, 2>>) >>

\* the host loop body with the fair-queuing stage issued before the delay stage
HostShaping_Reversed(host, d) ==
  LET dev == host \o "-eth0" IN
  << Tbf(host, dev, access_rate, queuing_del),
     Fq(host, dev),
     Netem(host, "qdisc add", dev, <<1, 1>>, <<10, 0>>, d, access_delay_var, NoLoss) >>

\* the body of the host loops, lines 151-153 and 157-159
HostShaping(host, d) ==
  LET dev == host \o "-eth0" IN
  << Tbf(host, dev, access_rate, queuing_del),
     Netem(host, "qdisc add", dev, <<1, 1>>, <<10, 0>>, d, access_delay_var, NoLoss),
     Fq(host, dev) >>

\* lines 149-159
HostDirectives ==
  Flatten([i \in 1..6 |->
             HostShaping(<<"h3", "h4", "h5", "h6", "h7", "h8">>[i], access_delay)])
  \o Flatten([i \in 1..2 |-> HostShaping(<<"h1", "h2">>[i], edge_delay)])

\* the body of the router loop, lines 166-167
RouterAccessShaping(router, inf) ==
  LET dev == router \o "-" \o inf IN
  << Tbf(router, dev, access_rate, queuing_del),
     Netem(router, "qdisc add", dev, <<1, 1>>, <<10, 0>>,
           access_delay, access_delay_var, NoLoss) >>

\* lines 162-167
RouterAccessDirectives ==
  Flatten([i \in 1..4 |->
     Flatten([j \in 1..2 |->
        RouterAccessShaping(<<"r1", "r2", "r3", "r4">>[i], <<"eth2", "eth3">>[j])])])

\* lines 169-170
ChangeDirectives ==
  << Netem("r1", "qdisc change", "r1-eth2", <<1, 1>>, <<10, 0>>,
           edge_delay, edge_delay, NoLoss),
     Netem("r2", "qdisc change", "r4-eth3", <<1, 1>>, <<10, 0>>,
           edge_delay, edge_delay, NoLoss) >>

\* the body of the first bottleneck loop, lines 175-179
Eth10Shaping(router) ==
  LET dev == router \o "-eth10" IN
  << Directive(router, "qdisc add", dev, "mf", NoHandle, <<1, 0>>),
     Htb(router, dev, <<1, 0>>, <<2, 0>>),
     HtbClass(router, dev, <<2, 0>>, <<2, 1>>, bottleneck_rate),
     HtbClass(router, dev, <<2, 1>>, <<2, 10>>, bottleneck_rate),
     Netem(router, "qdisc add", dev, <<2, 10>>, <<10, 0>>,
           bottleneck_delay, bottleneck_delay_var, bottleneck_loss) >>

\* the second loop body with the delay stage hung beneath the outer class
Eth11Shaping_Flat(router) ==
  LET dev == router \o "-eth11" IN
  << Htb(router, dev, NoHandle, <<1, 0>>),
     HtbClass(router, dev, <<1, 0>>, <<1, 1>>, bottleneck_rate),
     HtbClass(router, dev, <<1, 1>>, <<1, 10>>, bottleneck_rate),
     Netem(router, "qdisc add", dev, <<1, 1>>, <<10, 0>>,
           bottleneck_delay, bottleneck_delay_var, NoLoss) >>

\* the body of the second bottleneck loop, lines 183-186
Eth11Shaping(router) ==
  LET dev == router \o "-eth11" IN
  << Htb(router, dev, NoHandle, <<1, 0>>),
     HtbClass(router, dev, <<1, 0>>, <<1, 1>>, bottleneck_rate),
     HtbClass(router, dev, <<1, 1>>, <<1, 10>>, bottleneck_rate),
     Netem(router, "qdisc add", dev, <<1, 10>>, <<10, 0>>,
           bottleneck_delay, bottleneck_delay_var, NoLoss) >>

\* lines 174-186
BottleneckDirectives ==
  Flatten([i \in 1..3 |-> Eth10Shaping(<<"r1", "r2", "r3">>[i])])
  \o Flatten([i \in 1..3 |-> Eth11Shaping(<<"r2", "r3", "r4">>[i])])

ShapingDirectives ==
  HostDirectives \o RouterAccessDirectives \o ChangeDirectives \o BottleneckDirectives

\* everything main hands to the driver between net.start() and the run mode
\* (line 146 only prints r1's routing table and changes nothing)
SetupDirectives == RouteDirectives \o ShapingDirectives

(***************************************************************************)
(* The driver: net[ node ].cmd( directive ) runs the directive in the      *)
(* node's namespace and yields an exit code that main never reads.         *)
(***************************************************************************)
IsQdisc(x) == x.op = "qdisc add"
IsClass(x) == x.op = "class add"

\* The stages and classes a sequence of accepted "add" directives declares.
Qdiscs(cfg)  == {cfg[i] : i \in {j \in 1..Len(cfg) : IsQdisc(cfg[j])}}
Classes(cfg) == {cfg[i] : i \in {j \in 1..Len(cfg) : IsClass(cfg[j])}}

\* A parent "M:m" names class m of the stage with handle "M:"; tbf and netem
\* carry one built-in class 1, htb classes exist once "class add" made them.
ParentDeclared(cfg, p) ==
  \E q \in Qdiscs(cfg) :
     /\ q.handle = <<p[1], 0>>
     /\ \/ p[2] = 0
        \/ \E c \in Classes(cfg) : c.handle = p
        \/ q.kind \in {"tbf", "netem"} /\ p[2] = 1

DevOnNode(ifs, d) == \E i \in ifs : i.node = d.node /\ i.name = d.dev

\* Whether the node's kernel can carry out the directive at all.
Acceptable(ifs, cfgs, d) ==
  CASE d.op = "route add" -> TRUE
    [] d.op = "qdisc add" ->
         /\ DevOnNode(ifs, d)
         /\ \A q \in Qdiscs(cfgs[d.dev]) : q.handle # d.handle
         /\ IF d.parent = NoHandle
            THEN \A q \in Qdiscs(cfgs[d.dev]) : q.parent # NoHandle
            ELSE ParentDeclared(cfgs[d.dev], d.parent)
    [] d.op = "class add" ->
         /\ DevOnNode(ifs, d)
         /\ ParentDeclared(cfgs[d.dev], d.parent)
         /\ \A c \in Classes(cfgs[d.dev]) : c.handle # d.handle
    [] d.op = "qdisc change" ->
         /\ DevOnNode(ifs, d)
         /\ \E q \in Qdiscs(cfgs[d.dev]) :
               q.handle = d.handle /\ q.parent = d.parent /\ q.kind = d.kind

\* The queueing configuration of a device after an accepted tc directive.
ApplyTc(cfg, d) ==
  IF d.op = "qdisc change"
  THEN [i \in 1..Len(cfg) |->
          IF IsQdisc(cfg[i]) /\ cfg[i].handle = d.handle
          THEN [cfg[i] EXCEPT !.delay = d.delay, !.jitter = d.jitter, !.loss = d.loss]
          ELSE cfg[i]]
  ELSE Append(cfg, d)

\* Mininet( topo=topo, controller=None ); net.start(): the interfaces exist,
\* the node-level addresses are set and LinuxRouter.config enables forwarding.
NetStart ==
  /\ pc = "start"
  /\ intfs' = Interfaces(nodes, links)
  /\ tc' = [dev \in {i.name : i \in Interfaces(nodes, links)} |-> << >>]
  /\ fwd' = [r \in Routers |-> 1]
  /\ pc' = "setup"
  /\ UNCHANGED <<cli, bi, nodes, ports, links, terminated, si, injected, failed, rt, launched>>

\* The exit code of directive d when the environment lets it through (ok) or not.
ExitCode(ifs, cfgs, d, ok) == IF ok /\ Acceptable(ifs, cfgs, d) THEN 0 ELSE 1

\* The directives handed to the driver so far, in order: main issues its
\* sequence unconditionally, one directive per step.
issued == SubSeq(SetupDirectives, 1, si - 1)

\* net[ 'rN' ].cmd( 'ip route add ...' ), lines 129-143
ConfigureRouter ==
  /\ pc = "setup" /\ si <= Len(SetupDirectives)
  /\ SetupDirectives[si].op = "route add"
  /\ \E ok \in BOOLEAN :
       LET d    == SetupDirectives[si]
           code == ExitCode(intfs, tc, d, ok)
       IN  /\ ok \/ (Acceptable(intfs, tc, d) /\ Cardinality(injected) < MaxFailures)
           /\ injected' = IF ok THEN injected ELSE injected \cup {si}
           /\ failed' = IF code = 0 THEN failed ELSE failed \cup {si}
           /\ rt' = IF code = 0
                    THEN [rt EXCEPT ![d.node] = @ \cup {[dst |-> d.dst, via |-> d.via]}]
                    ELSE rt
  /\ si' = si + 1
  /\ UNCHANGED <<pc, cli, bi, nodes, ports, links, intfs, fwd, terminated, tc, launched>>

\* net[ node ].cmd( 'tc ...' ), lines 149-186
ApplyShaping ==
  /\ pc = "setup" /\ si <= Len(SetupDirectives)
  /\ SetupDirectives[si].op # "route add"
  /\ \E ok \in BOOLEAN :
       LET d    == SetupDirectives[si]
           code == ExitCode(intfs, tc, d, ok)
       IN  /\ ok \/ (Acceptable(intfs, tc, d) /\ Cardinality(injected) < MaxFailures)
           /\ injected' = IF ok THEN injected ELSE injected \cup {si}
           /\ failed' = IF code = 0 THEN failed ELSE failed \cup {si}
           /\ tc' = IF code = 0
                    THEN [tc EXCEPT ![d.dev] = ApplyTc(@, d)]
                    ELSE tc
  /\ si' = si + 1
  /\ UNCHANGED <<pc, cli, bi, nodes, ports, links, intfs, fwd, terminated, rt, launched>>

\* setup has issued its last directive: hosts = [net['h1'], net['h2']]
SetupDone ==
  /\ pc = "setup" /\ si > Len(SetupDirectives)
  /\ pc' = "launch"
  /\ UNCHANGED <<cli, bi, nodes, ports, links, intfs, fwd, terminated,
                 si, injected, failed, rt, tc, launched>>

Proc(node, cmd, target) == [node |-> node, cmd |-> cmd, target |-> target]

\* the run mode, lines 191-214
RunMode ==
  /\ pc = "launch"
  /\ launched' =
       IF cli # 0 THEN
         { Proc("h1", "iperf", <<102, 1>>), Proc("h2", "iperf", <<101, 1>>) }
       ELSE IF isRTP THEN
         { Proc("h1", "rtp-streamer.sh", <<102, 1>>), Proc("h2", "rtp-streaming.sh", NoIP),
           Proc("h3", "rtp-streamer.sh", <<104, 1>>), Proc("h4", "rtp-streaming.sh", NoIP),
           Proc("h5", "rtp-streamer.sh", <<106, 1>>), Proc("h6", "rtp-streaming.sh", NoIP) }
       ELSE
         { Proc("h1", "streamer", <<101, 1>>), Proc("h2", "streaming.sh", <<101, 1>>),
           Proc("h3", "streamer", <<103, 1>>), Proc("h4", "streaming.sh", <<103, 1>>),
           Proc("h5", "streamer", <<105, 1>>), Proc("h6", "streaming.sh", <<105, 1>>),
           Proc("h7", "streamer", <<107, 1>>), Proc("h8", "streaming.sh", <<107, 1>>) }
  /\ pc' = "cli"
  /\ UNCHANGED <<cli, bi, nodes, ports, links, intfs, fwd, terminated,
                 si, injected, failed, rt, tc>>

\* CLI( net ) returns
CLIExit ==
  /\ pc = "cli"
  /\ pc' = "stop"
  /\ UNCHANGED <<cli, bi, nodes, ports, links, intfs, fwd, terminated,
                 si, injected, failed, rt, tc, launched>>

\* LinuxRouter.terminate: 'sysctl net.ipv4.ip_forward=0', then Node.terminate
terminate(state, r) ==
  [fwd        |-> [state.fwd EXCEPT ![r] = 0],
   terminated |-> [state.terminated EXCEPT ![r] = @ + 1]]

RECURSIVE TerminateAll(_, _)
TerminateAll(state, rs) ==
  IF rs = << >> THEN state
  ELSE TerminateAll(terminate(state, Head(rs)), Tail(rs))

\* net.stop(): every node of the network is terminated
NetStop ==
  /\ pc = "stop"
  /\ LET s == TerminateAll([fwd |-> fwd, terminated |-> terminated],
                           <<"r1", "r2", "r3", "r4">>)
     IN  fwd' = s.fwd /\ terminated' = s.terminated
  /\ pc' = "exited"
  /\ UNCHANGED <<cli, bi, nodes, ports, links, intfs, si, injected, failed, rt, tc, launched>>

\* net[ node ].cmd( ... ) raises while directive si is being run: main has
\* no try/finally, so the exception leaves main and net.stop() is never run.
Interrupt ==
  /\ pc = "setup" /\ si <= Len(SetupDirectives)
  /\ pc' = "crashed"
  /\ UNCHANGED <<cli, bi, nodes, ports, links, intfs, fwd, terminated,
                 si, injected, failed, rt, tc, launched>>

Next ==
  \/ addHost \/ addNode \/ addLink \/ BuildDone
  \/ NetStart \/ ConfigureRouter \/ ApplyShaping \/ SetupDone
  \/ RunMode \/ CLIExit \/ NetStop \/ Interrupt

Spec == Init /\ [][Next]_vars
(***************************************************************************)
(* Derived views of the realized network                                   *)
(***************************************************************************)
Attached(ifs, n) == {i.ip[1] : i \in {j \in ifs : j.node = n}}
AllSubnets(ifs)  == {i.ip[1] : i \in ifs}

\* routers that share a (backbone) link with router r
Neighbors(ifs, r) ==
  {i.node : i \in {j \in ifs : /\ j.node \in Routers /\ j.node # r
                               /\ \E k \in ifs : k.node = r /\ k.link = j.link}}

\* breadth-first search over the backbone: hops from the frontier to a target
RECURSIVE Bfs(_, _, _, _, _)
Bfs(ifs, frontier, visited, targets, d) ==
  IF frontier \cap targets # {} THEN d
  ELSE IF frontier = {} THEN -1
  ELSE Bfs(ifs,
           UNION {Neighbors(ifs, r) : r \in frontier} \ (visited \cup frontier),
           visited \cup frontier, targets, d + 1)

Owners(ifs, s)  == {r \in Routers : s \in Attached(ifs, r)}
Dist(ifs, r, s) == Bfs(ifs, {r}, {}, Owners(ifs, s), 0)

\* addresses of the neighbours of r that are one hop nearer to subnet s,
\* taken on the link they share with r
ShortestNextHops(ifs, r, s) ==
  LET dr == Dist(ifs, r, s) IN
  {i.ip : i \in {j \in ifs :
       /\ j.node \in Routers \ {r}
       /\ \E k \in ifs : k.node = r /\ k.link = j.link
       /\ Dist(ifs, j.node, s) >= 0
       /\ Dist(ifs, j.node, s) + 1 = dr}}

\* the node reached from n when it sends on-link to address a
OnLink(ifs, n, a) ==
  {i.node : i \in {j \in ifs : /\ j.ip = a /\ j.node # n
                               /\ \E k \in ifs : k.node = n /\ k.link = j.link}}

Gateway(ns, h) == (CHOOSE x \in ns : x.name = h).gw

\* Hop-by-hop forwarding of a packet for address dst that is now at node n.
RECURSIVE Forward(_, _, _, _, _, _, _)
Forward(ifs, ns, tab, fw, n, dst, visited) ==
  IF dst \in {i.ip : i \in {j \in ifs : j.node = n}} THEN "delivered"
  ELSE IF n \in visited THEN "loop"
  ELSE IF n \in Routers /\ fw[n] # 1 THEN "not forwarding"
  ELSE IF dst[1] \in Attached(ifs, n) THEN
         IF OnLink(ifs, n, dst) = {} THEN "unreachable"
         ELSE Forward(ifs, ns, tab, fw, CHOOSE m \in OnLink(ifs, n, dst) : TRUE,
                      dst, visited \cup {n})
  ELSE LET vias == IF n \in Routers
                   THEN {e.via : e \in {x \in tab[n] : x.dst = dst[1]}}
                   ELSE {Gateway(ns, n)}
       IN  IF vias = {} THEN "no route"
           ELSE IF \E v \in vias : OnLink(ifs, n, v) = {} THEN "unreachable"
           ELSE IF Cardinality(UNION {OnLink(ifs, n, v) : v \in vias}) # 1 THEN "multipath"
           ELSE Forward(ifs, ns, tab, fw,
                        CHOOSE m \in UNION {OnLink(ifs, n, v) : v \in vias} : TRUE,
                        dst, visited \cup {n})

\* the directives issued so far for device dev that declare a stage or class
DeclaredBefore(k, dev) ==
  SelectSeq(SubSeq(issued, 1, k - 1),
            LAMBDA x : x.dev = dev /\ (IsQdisc(x) \/ IsClass(x)))

RoutesIssued  == si > Len(RouteDirectives)
AccessIssued  == si > Len(RouteDirectives) + Len(HostDirectives)
                      + Len(RouterAccessDirectives) + Len(ChangeDirectives)
AllIssued     == si > Len(SetupDirectives)
NoRouteFailed == \A i \in failed : issued[i].op # "route add"
NoFailureOn(dev) == \A i \in failed : issued[i].dev # dev

\* interfaces at either end of a host-router link / of a router-router link
AccessDevs ==
  {i.name : i \in {j \in intfs : \E k \in intfs : k.link = j.link /\ k.node \in Hosts}}
BackboneDevs == {i.name : i \in intfs} \ AccessDevs

(***************************************************************************)
(* Properties                                                              *)
(***************************************************************************)
RouteCount(r, s) == Cardinality({e \in rt[r] : e.dst = s})

\* C1 (as stated): after route installation every router holds exactly one
\* installed route for every subnet of the topology that is not attached to it.
C1_ExactlyOneRoutePerSubnet ==
  (RoutesIssued /\ NoRouteFailed) =>
     \A r \in Routers : \A s \in AllSubnets(intfs) \ Attached(intfs, r) :
        RouteCount(r, s) = 1

\* The next hops the realized topology prescribes, per router and subnet.
NextHopTable ==
  [r \in Routers |-> [s \in AllSubnets(BuiltIntfs) |-> ShortestNextHops(BuiltIntfs, r, s)]]

\* The subnets the realized topology attaches to each router.
AttachedTable == [r \in Routers |-> Attached(BuiltIntfs, r)]

\* C2: every installed route of a router R points at the address that the
\* adjacent router on the shortest backbone path to the destination subnet's
\* owner has on the link it shares with R, that address lies on a subnet
\* attached to R, and r1 reaches 104 and 102 via 172.16.10.3, r4 reaches 101
\* and 107 via 172.16.12.2.
C2_NextHopOnShortestPath ==
  /\ pc \notin {"build", "start"} => intfs = BuiltIntfs
  /\ \A r \in Routers : \A e \in rt[r] :
        /\ e.dst \in AllSubnets(BuiltIntfs)
        /\ NextHopTable[r][e.dst] = {e.via}
        /\ e.via[1] \in AttachedTable[r]
  /\ (RoutesIssued /\ NoRouteFailed) =>
        /\ {e.via : e \in {x \in rt["r1"] : x.dst \in {104, 102}}} = {<<10, 3>>}
        /\ {e.via : e \in {x \in rt["r4"] : x.dst \in {101, 107}}} = {<<12, 2>>}
        /\ RouteCount("r1", 104) = 1 /\ RouteCount("r1", 102) = 1
        /\ RouteCount("r4", 101) = 1 /\ RouteCount("r4", 107) = 1

\* C2 witness: all twelve routes are installed.
C2_Witness ==
  /\ RoutesIssued /\ NoRouteFailed
  /\ Cardinality(UNION {{<<r, e>> : e \in rt[r]} : r \in Routers}) = Len(RouteDirectives)

UniqueIntfs(ifs) ==
  /\ \A i, j \in ifs : i # j => (i.ip # j.ip /\ i.name # j.name)
  /\ \A i \in ifs : i.ip # NoIP

\* C8: once build has made all its calls, no two interfaces of the topology
\* have the same address or the same name; the node-level ip of a router and
\* the ip of its first access link name one interface.
C8_UniqueAddressesAndNames ==
  bi > Len(BuildCalls) =>
    /\ Topo = Built
    /\ UniqueIntfs(BuiltIntfs)
    /\ \A n \in Built.nodes : Cardinality({i \in BuiltIntfs : i.ip = n.ip}) = 1
    /\ Cardinality(BuiltIntfs) = 2 * Len(Built.links)

\* C8 witness: build is complete and the four routers' node-level addresses
\* sit on their eth2 interfaces.
C8_Witness ==
  /\ bi > Len(BuildCalls)
  /\ \A r \in Routers : \E i \in Interfaces(nodes, links) :
        i.node = r /\ i.ip = NodeIP(nodes, r) /\ i.name = r \o "-eth2"

StreamPairs == {<<"h1", "h2">>, <<"h3", "h4">>, <<"h5", "h6">>, <<"h7", "h8">>}

Delivered(a, b) == Forward(intfs, nodes, rt, fwd, a, NodeIP(nodes, b), {}) = "delivered"

\* the (consumer, producer) pairs among the launched streaming processes
LaunchedPairs ==
  {<<(CHOOSE q \in launched : q.cmd = "streamer" /\ q.target = p.target).node, p.node>> :
      p \in {x \in launched : x.cmd = "streaming.sh"}}

\* C9: with the routes installed as configured, a packet between the hosts of
\* each streaming pair, in either direction, is delivered: no router on its
\* way lacks a route and none is visited twice.
C9_StreamingPairsReachable ==
  /\ (pc = "cli" /\ NoRouteFailed) =>
        \A p \in StreamPairs : Delivered(p[1], p[2]) /\ Delivered(p[2], p[1])
  /\ (pc = "cli" /\ cli = 0 /\ ~isRTP) => LaunchedPairs = StreamPairs

\* C9 witness: the streaming processes run over fully installed routes.
C9_Witness ==
  /\ pc = "cli" /\ cli = 0 /\ NoRouteFailed
  /\ LaunchedPairs = StreamPairs
  /\ Delivered("h1", "h2") /\ Delivered("h2", "h1")

\* the stages of kind k in a device's configuration
Stages(cfg, k) == {q \in Qdiscs(cfg) : q.kind = k}

ThreeStages(dev) ==
  LET cfg == tc[dev] IN
    /\ Cardinality(Qdiscs(cfg)) = 3
    /\ \E t \in Stages(cfg, "tbf") : \E n \in Stages(cfg, "netem") : \E f \in Stages(cfg, "fq") :
          /\ t.parent = NoHandle /\ t.rate = 1024
          /\ n.parent = <<t.handle[1], 1>>
          /\ f.parent = n.handle

\* C3 (as stated): once access shaping has been applied, every endpoint of
\* every host-router link carries three stages: a 1024kbit token bucket at the
\* root, a delay stage beneath it and a fair-queuing stage beneath that.
C3_ThreeStagesOnEveryAccessInterface ==
  AccessIssued =>
    \A dev \in AccessDevs : NoFailureOn(dev) => ThreeStages(dev)

\* Directive k respects what the earlier directives on its device declared.
WellOrdered(k) ==
  LET d     == issued[k]
      prior == DeclaredBefore(k, d.dev)
      decl  == Qdiscs(prior) \cup Classes(prior)
  IN  \/ d.op = "route add"
      \/ /\ (IsQdisc(d) \/ IsClass(d)) =>
              /\ prior = << >> => (IsQdisc(d) /\ d.parent = NoHandle)
              /\ d.parent = NoHandle => \A q \in decl : q.parent # NoHandle
              /\ d.parent # NoHandle => ParentDeclared(prior, d.parent)
              /\ \A x \in decl : x.handle # d.handle
         /\ d.op = "qdisc change" =>
              /\ ParentDeclared(prior, d.parent)
              /\ \E q \in Qdiscs(prior) : q.handle = d.handle /\ q.kind = d.kind

Roots(dev) ==
  {q \in Qdiscs(DeclaredBefore(Len(issued) + 1, dev)) : q.parent = NoHandle}

\* C4: at every point of the directive sequence the latest directive names as
\* parent a stage or class that an earlier directive on the same interface
\* declared, declares no handle twice and no second root; in the end every
\* interface has exactly one root stage.
C4_ParentDeclaredBeforeChild ==
  /\ issued # << >> => WellOrdered(Len(issued))
  /\ (AllIssued /\ pc = "launch") =>
        \A dev \in {i.name : i \in intfs} : Cardinality(Roots(dev)) = 1

\* C4 witness: the whole sequence is out and r1-eth10 holds its five-level chain.
C4_Witness ==
  /\ AllIssued
  /\ Len(DeclaredBefore(Len(issued) + 1, "r1-eth10")) = 5
  /\ Cardinality(Roots("h1-eth0")) = 1

Eth10Devs == {"r1-eth10", "r2-eth10", "r3-eth10"}
Eth11Devs == {"r2-eth11", "r3-eth11", "r4-eth11"}

\* The backbone hierarchy on dev: one htb stage, one outer class at 666kbit,
\* one inner class beneath it that is the htb default, one delay stage of
\* 20ms +- 3ms beneath the inner class with loss parameter l, and no loss on
\* any other stage.
BackboneShape(dev, l) ==
  LET cfg   == tc[dev]
      htbs  == Stages(cfg, "htb")
      outer == {c \in Classes(cfg) : \E q \in htbs : c.parent = q.handle}
  IN  /\ Cardinality(htbs) = 1
      /\ Cardinality(outer) = 1
      /\ Cardinality(Classes(cfg)) = 2
      /\ Cardinality(Stages(cfg, "netem")) = 1
      /\ \A q \in htbs : \A o \in outer :
           /\ o.rate = 666
           /\ \E c \in Classes(cfg) :
                /\ c.parent = o.handle
                /\ c.handle = <<q.handle[1], q.dflt>>
                /\ \A n \in Stages(cfg, "netem") :
                      /\ n.parent = c.handle
                      /\ n.delay = 20 /\ n.jitter = 3
                      /\ n.loss = l
      /\ \A q \in Qdiscs(cfg) : q.kind # "netem" => q.loss = NoLoss

C6_TeardownOnEveryRouter ==
  pc \in {"exited", "crashed"} => \A r \in Routers : terminated[r] = 1

\* C7 (as stated): after a directive has returned a non-zero exit code no
\* further directive is issued and no test or streaming process is launched.
C7_AbortOnDriverError ==
  \A i \in failed : Len(issued) = i /\ launched = {}

\* C10 (as stated): every shaping directive runs on the node that owns the
\* interface it names, and the 1ms edge delay is in effect on r1-eth2 and on
\* r4-eth3 once both changes were issued.
C10_DirectiveOnOwningNode ==
  /\ \A k \in 1..Len(issued) :
        issued[k].op # "route add" => DevOnNode(intfs, issued[k])
  /\ (AccessIssued /\ injected = {}) =>
        \A dev \in {"r1-eth2", "r4-eth3"} :
           \A n \in Stages(tc[dev], "netem") : n.delay = 1
=============================================================================
